---- MODULE Spec2Model ----
(***************************************************************************)
(* Model of Set<ValueType> (src/Set.h): an ordered set kept in an AA-tree  *)
(* of heap nodes with parent back-links.                                   *)
(*                                                                         *)
(* The heap is a function from the addresses of the live nodes to their    *)
(* fields; `new` takes the smallest free address and `delete` removes the  *)
(* address from the domain.  Two container objects, "A" and "B", share the *)
(* heap.  A size_t value is written as the integer of smallest magnitude   *)
(* congruent to it modulo 2^64, so that SIZE_MAX reads -1: ++, --, - and   *)
(* == on such representatives agree with the machine's.                    *)
(***************************************************************************)
EXTENDS Integers, Sequences, FiniteSets, TLC

\* ---------------------------------------------------------------- bounds
MaxVal == 3
MaxMoves == 1

Values == 1..MaxVal
MaxNodes == MaxVal + 1
Addresses == 1..MaxNodes
Sets == {"A", "B"}

\* nullptr
NULL == 0
\* Node::BASIC_LEVEL
BASIC_LEVEL == 1
\* Set::EMPTY_SIZE
EMPTY_SIZE == 0

VARIABLES
    heap,        \* live nodes: address -> Node
    alive,       \* the container objects whose lifetime has begun
    tree_root_,  \* per object: Node* tree_root_
    set_size_,   \* per object: size_t set_size_
    abs,         \* per object: the mathematical set the calls so far describe
    moves,       \* number of move operations performed
    thrown       \* the allocation failure that has ended the run, if any

vars == <<heap, alive, tree_root_, set_size_, abs, moves, thrown>>

\* ----------------------------------------------------------------- Node
\* struct Node, as built by Node(const ValueType&)
Node(value) ==
    [value |-> value, level |-> BASIC_LEVEL, parent |-> NULL,
     left_son |-> NULL, right_son |-> NULL]

\* operator new: the address handed out
NewAddress(h) == CHOOSE n \in Addresses \ DOMAIN h :
                    \A m \in Addresses \ DOMAIN h : n <= m

\* new Node(value)
New(h, value) == h @@ (NewAddress(h) :> Node(value))

\* delete vertex
Free(h, vertex) == [n \in DOMAIN h \ {vertex} |-> h[n]]

\* "let x = e in F(x)" with e evaluated once
Bind(F(_), e) == CHOOSE r \in {F(x) : x \in {e}} : TRUE

\* --------------------------------------------------- rotation primitives
Skew(h, vertex) ==
    IF h[vertex].left_son = NULL \/ h[h[vertex].left_son].level # h[vertex].level
    THEN [h |-> h, t |-> vertex]
    ELSE LET s  == h[vertex].left_son
             sr == h[s].right_son
             h2 == IF sr # NULL
                   THEN [h EXCEPT ![vertex].left_son = sr, ![sr].parent = vertex]
                   ELSE [h EXCEPT ![vertex].left_son = sr]
         IN  [h |-> [h2 EXCEPT ![s].right_son = vertex,
                               ![s].parent = h2[vertex].parent,
                               ![vertex].parent = s],
              t |-> s]

Split(h, vertex) ==
    IF \/ h[vertex].right_son = NULL
       \/ h[h[vertex].right_son].right_son = NULL
       \/ h[vertex].level # h[h[h[vertex].right_son].right_son].level
    THEN [h |-> h, t |-> vertex]
    ELSE LET s  == h[vertex].right_son
             sl == h[s].left_son
             h2 == IF sl # NULL
                   THEN [h EXCEPT ![vertex].right_son = sl, ![sl].parent = vertex]
                   ELSE [h EXCEPT ![vertex].right_son = sl]
         IN  [h |-> [h2 EXCEPT ![s].left_son = vertex,
                               ![s].parent = h2[vertex].parent,
                               ![vertex].parent = s,
                               ![s].level = h2[s].level + 1],
              t |-> s]

\* ---------------------------------------------------------------- Insert
\* t = Skew(t); t = Split(t); return t (lines 264-266)
InsertRebalance(h, t) == Bind(LAMBDA k : Split(k.h, k.t), Skew(h, t))

\* t->left_son = <r>; t->left_son->parent = t; then the rebalancing
InsertLeft(r, t) ==
    Bind(LAMBDA b : [h |-> b.h, sz |-> r.sz, t |-> b.t,
                     inserted_vertex |-> r.inserted_vertex],
         InsertRebalance([r.h EXCEPT ![t].left_son = r.t, ![r.t].parent = t], t))

\* t->right_son = <r>; t->right_son->parent = t; then the rebalancing
InsertRight(r, t) ==
    Bind(LAMBDA b : [h |-> b.h, sz |-> r.sz, t |-> b.t,
                     inserted_vertex |-> r.inserted_vertex],
         InsertRebalance([r.h EXCEPT ![t].right_son = r.t, ![r.t].parent = t], t))

\* InsertNew when ++set_size_ is left out
InsertNew_NoCount(h, sz, value) ==
    [h |-> New(h, value), sz |-> sz,
     t |-> NewAddress(h), inserted_vertex |-> NewAddress(h)]

\* inserted_vertex = new Node(value); ++set_size_; return inserted_vertex
\* (250-252)
InsertNew(h, sz, value) ==
    [h |-> New(h, value), sz |-> sz + 1,
     t |-> NewAddress(h), inserted_vertex |-> NewAddress(h)]

RECURSIVE Insert(_, _, _, _)
Insert(h, sz, t, value) ==
    IF t = NULL
    THEN InsertNew(h, sz, value)
    ELSE IF value < h[t].value
    THEN Bind(LAMBDA r : InsertLeft(r, t), Insert(h, sz, h[t].left_son, value))
    ELSE IF h[t].value < value
    THEN Bind(LAMBDA r : InsertRight(r, t), Insert(h, sz, h[t].right_son, value))
    ELSE [h |-> h, sz |-> sz, t |-> t, inserted_vertex |-> t]

\* ----------------------------------------------------------------- Erase
Min(a, b) == IF a < b THEN a ELSE b

DecreaseLevel(h, vertex) ==
    LET l == h[vertex].left_son
        r == h[vertex].right_son
        expected_level == IF l = NULL \/ r = NULL THEN 1
                          ELSE Min(h[l].level, h[r].level) + 1
    IN  IF h[vertex].level > expected_level
        THEN IF r # NULL /\ h[r].level > expected_level
             THEN [h EXCEPT ![vertex].level = expected_level,
                            ![r].level = expected_level]
             ELSE [h EXCEPT ![vertex].level = expected_level]
        ELSE h

RECURSIVE Leftmost(_, _)
Leftmost(h, vertex) ==
    IF h[vertex].left_son # NULL THEN Leftmost(h, h[vertex].left_son) ELSE vertex

RECURSIVE Rightmost(_, _)
Rightmost(h, vertex) ==
    IF h[vertex].right_son # NULL THEN Rightmost(h, h[vertex].right_son) ELSE vertex

Successor(h, vertex) == Leftmost(h, h[vertex].right_son)

Predecessor(h, vertex) == Rightmost(h, h[vertex].left_son)

\* vertex->right_son = Skew(vertex->right_son), when there is one (329-330)
SkewRight(h, vertex) ==
    IF h[vertex].right_son # NULL
    THEN Bind(LAMBDA k : [k.h EXCEPT ![vertex].right_son = k.t],
              Skew(h, h[vertex].right_son))
    ELSE h

\* vertex->right_son->right_son = Skew(...), when there is one (329-333)
SkewRightRight(h, vertex) ==
    IF h[vertex].right_son # NULL /\ h[h[vertex].right_son].right_son # NULL
    THEN Bind(LAMBDA k : [k.h EXCEPT ![h[vertex].right_son].right_son = k.t],
              Skew(h, h[h[vertex].right_son].right_son))
    ELSE h

\* vertex->right_son = Split(vertex->right_son), when there is one (336-338)
SplitRight(p) ==
    IF p.h[p.t].right_son # NULL
    THEN Bind(LAMBDA q : [h |-> [q.h EXCEPT ![p.t].right_son = q.t], t |-> p.t],
              Split(p.h, p.h[p.t].right_son))
    ELSE p

\* DecreaseLevel, the two Skews and the two Splits after the descent (328-339)
EraseRebalance(h, vertex) ==
    Bind(LAMBDA h1 :
        Bind(LAMBDA h2 :
            Bind(LAMBDA h3 :
                Bind(LAMBDA p : SplitRight(p), Split(h3, vertex)),
                SkewRightRight(h2, vertex)),
            SkewRight(h1, vertex)),
        DecreaseLevel(h, vertex))

\* vertex->left_son = <r>; then the rebalancing of vertex
EraseLeft(r, vertex) ==
    Bind(LAMBDA b : [h |-> b.h, sz |-> r.sz, t |-> b.t],
         EraseRebalance([r.h EXCEPT ![vertex].left_son = r.t], vertex))

\* vertex->right_son = <r>; then the rebalancing of vertex
EraseRight(r, vertex) ==
    Bind(LAMBDA b : [h |-> b.h, sz |-> r.sz, t |-> b.t],
         EraseRebalance([r.h EXCEPT ![vertex].right_son = r.t], vertex))

\* EraseLeaf when --set_size_ is left out
EraseLeaf_NoCount(h, sz, vertex) == [h |-> Free(h, vertex), sz |-> sz, t |-> NULL]

\* delete vertex; --set_size_; return nullptr (314-316)
EraseLeaf(h, sz, vertex) == [h |-> Free(h, vertex), sz |-> sz - 1, t |-> NULL]

RECURSIVE Erase(_, _, _, _)
Erase(h, sz, vertex, value) ==
    IF vertex = NULL
    THEN [h |-> h, sz |-> sz, t |-> NULL]
    ELSE IF value < h[vertex].value
    THEN Bind(LAMBDA r : EraseLeft(r, vertex),
              Erase(h, sz, h[vertex].left_son, value))
    ELSE IF h[vertex].value < value
    THEN Bind(LAMBDA r : EraseRight(r, vertex),
              Erase(h, sz, h[vertex].right_son, value))
    ELSE IF h[vertex].left_son = NULL /\ h[vertex].right_son = NULL
    THEN EraseLeaf(h, sz, vertex)
    ELSE IF h[vertex].left_son = NULL
    THEN Bind(LAMBDA s :
              Bind(LAMBDA r : EraseRight(r, vertex),
                   Erase([h EXCEPT ![vertex].value = h[s].value], sz,
                         h[vertex].right_son, h[s].value)),
              Successor(h, vertex))
    ELSE Bind(LAMBDA s :
              Bind(LAMBDA r : EraseLeft(r, vertex),
                   Erase([h EXCEPT ![vertex].value = h[s].value], sz,
                         h[vertex].left_son, h[s].value)),
              Predecessor(h, vertex))

\* ----------------------------------------------------- Find / LowerBound
RECURSIVE Find(_, _, _)
Find(h, vertex, value) ==
    IF vertex = NULL THEN NULL
    ELSE IF value < h[vertex].value THEN Find(h, h[vertex].left_son, value)
    ELSE IF h[vertex].value < value THEN Find(h, h[vertex].right_son, value)
    ELSE vertex

\* the loop of LowerBound, `ans` being the best candidate seen so far
RECURSIVE LowerBoundLoop(_, _, _, _)
LowerBoundLoop(h, vertex, value, ans) ==
    IF vertex = NULL THEN ans
    ELSE IF value < h[vertex].value
    THEN LowerBoundLoop(h, h[vertex].left_son, value, vertex)
    ELSE IF h[vertex].value < value
    THEN LowerBoundLoop(h, h[vertex].right_son, value, ans)
    ELSE vertex

\* LowerBound when the best candidate is never recorded, as in Find
LowerBound_AsFind(h, vertex, value) == Find(h, vertex, value)

LowerBound(h, vertex, value) == LowerBoundLoop(h, vertex, value, NULL)

\* ----------------------------------------------------------- Next / Prev
\* the climbing loop of Next: up while the vertex is not a left son
RECURSIVE NextClimb(_, _)
NextClimb(h, vertex) ==
    IF h[vertex].parent # NULL /\ h[h[vertex].parent].left_son # vertex
    THEN NextClimb(h, h[vertex].parent)
    ELSE h[vertex].parent

\* Next when the climb stops at the first parent
Next_NoClimb(h, vertex) ==
    IF h[vertex].right_son # NULL THEN Successor(h, vertex)
    ELSE h[vertex].parent

Next(h, vertex) ==
    IF h[vertex].right_son # NULL THEN Successor(h, vertex)
    ELSE NextClimb(h, vertex)

\* the climbing loop of Prev: up while the vertex is not a right son
RECURSIVE PrevClimb(_, _)
PrevClimb(h, vertex) ==
    IF h[vertex].parent # NULL /\ h[h[vertex].parent].right_son # vertex
    THEN PrevClimb(h, h[vertex].parent)
    ELSE h[vertex].parent

Prev(h, vertex) ==
    IF h[vertex].left_son # NULL THEN Predecessor(h, vertex)
    ELSE PrevClimb(h, vertex)

\* ---------------------------------------------------------- Copy / Delete
\* Copy with `budget` allocations that succeed before operator new throws.
\* A throw leaves the nodes built so far allocated and unreachable.
\* CopyLink when the copy of the right subtree is not attached
CopyLink_NoRight(h, c, l, r) ==
    LET h1 == [h EXCEPT ![c].left_son = l]
    IN  IF l # NULL THEN [h1 EXCEPT ![l].parent = c] ELSE h1

\* copied_vertex's sons set and their parent links rebuilt (371-378)
CopyLink(h, c, l, r) ==
    LET h1 == [h EXCEPT ![c].left_son = l, ![c].right_son = r]
        h2 == IF l # NULL THEN [h1 EXCEPT ![l].parent = c] ELSE h1
    IN  IF r # NULL THEN [h2 EXCEPT ![r].parent = c] ELSE h2

RECURSIVE CopyWithin(_, _, _)
CopyWithin(h, vertex, budget) ==
    IF vertex = NULL
    THEN [h |-> h, t |-> NULL, budget |-> budget, threw |-> FALSE]
    ELSE IF budget = 0
    THEN [h |-> h, t |-> NULL, budget |-> 0, threw |-> TRUE]
    ELSE Bind(LAMBDA c :
           Bind(LAMBDA l :
             IF l.threw THEN l
             ELSE Bind(LAMBDA r :
                    IF r.threw THEN r
                    ELSE [h |-> CopyLink(r.h, c, l.t, r.t), t |-> c,
                          budget |-> r.budget, threw |-> FALSE],
                    CopyWithin(l.h, h[vertex].right_son, l.budget)),
             CopyWithin([New(h, h[vertex].value) EXCEPT ![c].level = h[vertex].level],
                        h[vertex].left_son, budget - 1)),
           NewAddress(h))

RECURSIVE Delete(_, _)
Delete(h, vertex) ==
    IF vertex # NULL
    THEN Free(Delete(Delete(h, h[vertex].left_son), h[vertex].right_son), vertex)
    ELSE h

\* ------------------------------------------------------------- memory
\* A memory is the heap and the members of the two objects; the public
\* methods take a memory and the name of `this` and give the memory they
\* leave behind together with what they return.
Mem == [heap |-> heap, tree_root_ |-> tree_root_, set_size_ |-> set_size_]

\* ------------------------------------------------------- public queries
\* the iterator (iterator_owner, current_vertex)
iterator(s, vertex) == [iterator_owner |-> s, current_vertex |-> vertex]

find(m, s, value) == iterator(s, Find(m.heap, m.tree_root_[s], value))

lower_bound(m, s, value) == iterator(s, LowerBound(m.heap, m.tree_root_[s], value))

begin(m, s) ==
    iterator(s, IF m.tree_root_[s] # NULL
                THEN Leftmost(m.heap, m.tree_root_[s]) ELSE NULL)

end(m, s) == iterator(s, NULL)

size(m, s) == m.set_size_[s]

empty(m, s) == size(m, s) = EMPTY_SIZE

\* iterator::operator++()
PreIncrement(m, it) ==
    iterator(it.iterator_owner, Next(m.heap, it.current_vertex))

\* operator--() when the descent from the root to the rightmost node is
\* left out
PreDecrement_NoDescent(m, it) ==
    IF it.current_vertex = NULL
    THEN iterator(it.iterator_owner, m.tree_root_[it.iterator_owner])
    ELSE iterator(it.iterator_owner, Prev(m.heap, it.current_vertex))

\* iterator::operator--()
PreDecrement(m, it) ==
    IF it.current_vertex = NULL
    THEN iterator(it.iterator_owner,
                  Rightmost(m.heap, m.tree_root_[it.iterator_owner]))
    ELSE iterator(it.iterator_owner, Prev(m.heap, it.current_vertex))

\* iterator::operator*()
Deref(m, it) == m.heap[it.current_vertex].value

\* for (it = first; it != end(); ++it) collect *it; the loop is cut after
\* `fuel` steps and then reports the value 0, which no element has
RECURSIVE Walk(_, _, _)
Walk(m, it, fuel) ==
    IF it = end(m, it.iterator_owner) THEN <<>>
    ELSE IF fuel = 0 THEN <<0>>
    ELSE Bind(LAMBDA nx : <<Deref(m, it)>> \o Walk(m, nx, fuel - 1),
              PreIncrement(m, it))

Traverse(m, s) == Walk(m, begin(m, s), MaxNodes)

\* ------------------------------------------------------ public mutators
\* insert(value): the memory left and the pair returned
insert(m, s, value) ==
    Bind(LAMBDA r :
           [m |-> [heap |-> r.h,
                   tree_root_ |-> [m.tree_root_ EXCEPT ![s] = r.t],
                   set_size_ |-> [m.set_size_ EXCEPT ![s] = r.sz]],
            first |-> iterator(s, r.inserted_vertex),
            second |-> (r.sz = m.set_size_[s])],
         Insert(m.heap, m.set_size_[s], m.tree_root_[s], value))

\* erase(value): the memory left and the count returned
erase(m, s, value) ==
    Bind(LAMBDA r :
           [m |-> [heap |-> r.h,
                   tree_root_ |-> [m.tree_root_ EXCEPT ![s] = r.t],
                   set_size_ |-> [m.set_size_ EXCEPT ![s] = r.sz]],
            count |-> m.set_size_[s] - r.sz],
         Erase(m.heap, m.set_size_[s], m.tree_root_[s], value))

\* Set(): d's members after default construction
DefaultConstructor(m, d) ==
    [m EXCEPT !.tree_root_[d] = NULL, !.set_size_[d] = EMPTY_SIZE]

\* ~Set(); the dead object's members are written as those of an empty set
Destructor(m, d) ==
    [heap |-> Delete(m.heap, m.tree_root_[d]),
     tree_root_ |-> [m.tree_root_ EXCEPT ![d] = NULL],
     set_size_ |-> [m.set_size_ EXCEPT ![d] = EMPTY_SIZE]]

\* Set(const Set& s), constructing d; operator new throws after `budget`
\* allocations
CopyConstructor(m, d, s, budget) ==
    Bind(LAMBDA c :
           [m |-> [heap |-> c.h,
                   tree_root_ |-> IF c.threw THEN m.tree_root_
                                  ELSE [m.tree_root_ EXCEPT ![d] = c.t],
                   set_size_ |-> [m.set_size_ EXCEPT ![d] = m.set_size_[s]]],
            threw |-> c.threw],
         CopyWithin(m.heap, m.tree_root_[s], budget))

\* d.operator=(const Set& s); operator new throws after `budget` allocations.
\* When Copy throws, lines 60 and 61 have run and the assignment to
\* tree_root_ of line 62 has not.
CopyAssignment(m, d, s, budget) ==
    IF d = s
    THEN [m |-> m, threw |-> FALSE]
    ELSE Bind(LAMBDA c :
                [m |-> [heap |-> c.h,
                        tree_root_ |-> IF c.threw THEN m.tree_root_
                                       ELSE [m.tree_root_ EXCEPT ![d] = c.t],
                        set_size_ |-> [m.set_size_ EXCEPT ![d] = m.set_size_[s]]],
                 threw |-> c.threw],
              CopyWithin(Delete(m.heap, m.tree_root_[d]), m.tree_root_[s], budget))

\* Set(Set&& s), constructing d: d's members start as nullptr and EMPTY_SIZE
MoveConstructor(m, d, s) ==
    [m EXCEPT !.tree_root_[d] = NULL, !.tree_root_[s] = NULL,
              !.tree_root_[d] = m.tree_root_[s],
              !.set_size_[d] = m.set_size_[s]]

\* d.operator=(Set&& s)
MoveAssignment(m, d, s) ==
    [m EXCEPT !.tree_root_[d] = m.tree_root_[s],
              !.tree_root_[s] = m.tree_root_[d],
              !.set_size_[d] = m.set_size_[s]]

\* ------------------------------------------------------------ the calls
\* the nodes reachable from a root through the child links
RECURSIVE Reach(_, _)
Reach(h, vertex) ==
    IF vertex = NULL THEN {}
    ELSE {vertex} \cup Reach(h, h[vertex].left_son) \cup Reach(h, h[vertex].right_son)

\* the nodes of s's tree
NodesOf(m, s) == Reach(m.heap, m.tree_root_[s])

Store(m) ==
    /\ heap' = m.heap
    /\ tree_root_' = m.tree_root_
    /\ set_size_' = m.set_size_

\* no exception has left a call
NotThrown ==
    [threw |-> FALSE, self |-> "A", tree_root_ |-> NULL, set_size_ |-> EMPTY_SIZE,
     nodes |-> <<>>]

\* operator new has thrown inside a call on s: what s was when the call began
Thrown(s) ==
    [threw |-> TRUE, self |-> s, tree_root_ |-> tree_root_[s],
     set_size_ |-> set_size_[s],
     nodes |-> [n \in NodesOf(Mem, s) |-> heap[n]]]

Init ==
    /\ heap = <<>>
    /\ alive = Sets
    /\ tree_root_ = [s \in Sets |-> NULL]
    /\ set_size_ = [s \in Sets |-> EMPTY_SIZE]
    /\ abs = [s \in Sets |-> {}]
    /\ moves = 0
    /\ thrown = NotThrown

DefaultConstruct(d) ==
    /\ ~thrown.threw
    /\ d \notin alive
    /\ Store(DefaultConstructor(Mem, d))
    /\ alive' = alive \cup {d}
    /\ abs' = [abs EXCEPT ![d] = {}]
    /\ UNCHANGED <<moves, thrown>>

Destroy(d) ==
    /\ ~thrown.threw
    /\ d \in alive
    /\ Store(Destructor(Mem, d))
    /\ alive' = alive \ {d}
    /\ abs' = [abs EXCEPT ![d] = {}]
    /\ UNCHANGED <<moves, thrown>>

\* s.insert(value); the heap of the model has room for the node
CallInsert(s, value) ==
    /\ ~thrown.threw
    /\ s \in alive
    /\ find(Mem, s, value) # end(Mem, s) \/ DOMAIN heap # Addresses
    /\ \E r \in {insert(Mem, s, value)} : Store(r.m)
    /\ abs' = [abs EXCEPT ![s] = @ \cup {value}]
    /\ UNCHANGED <<alive, moves, thrown>>

\* s.erase(value)
CallErase(s, value) ==
    /\ ~thrown.threw
    /\ s \in alive
    /\ \E r \in {erase(Mem, s, value)} : Store(r.m)
    /\ abs' = [abs EXCEPT ![s] = @ \ {value}]
    /\ UNCHANGED <<alive, moves, thrown>>

\* the heap of the model has room for a copy of s's tree once d's is deleted
RoomToCopy(d, s) ==
    Cardinality(DOMAIN heap) - Cardinality(NodesOf(Mem, d))
        + Cardinality(NodesOf(Mem, s)) <= MaxNodes

\* Set d(s)
CopyConstruct(d, s) ==
    /\ ~thrown.threw
    /\ d \notin alive /\ s \in alive
    /\ RoomToCopy(d, s)
    /\ \E r \in {CopyConstructor(Mem, d, s, MaxNodes)} : Store(r.m)
    /\ alive' = alive \cup {d}
    /\ abs' = [abs EXCEPT ![d] = abs[s]]
    /\ UNCHANGED <<moves, thrown>>

\* d = s
CopyAssign(d, s) ==
    /\ ~thrown.threw
    /\ d \in alive /\ s \in alive
    /\ d = s \/ RoomToCopy(d, s)
    /\ \E r \in {CopyAssignment(Mem, d, s, MaxNodes)} : Store(r.m)
    /\ abs' = [abs EXCEPT ![d] = abs[s]]
    /\ UNCHANGED <<alive, moves, thrown>>

\* Set d(std::move(s))
MoveConstruct(d, s) ==
    /\ ~thrown.threw
    /\ d \notin alive /\ s \in alive
    /\ moves < MaxMoves
    /\ Store(MoveConstructor(Mem, d, s))
    /\ alive' = alive \cup {d}
    /\ abs' = [abs EXCEPT ![d] = abs[s], ![s] = {}]
    /\ moves' = moves + 1
    /\ UNCHANGED thrown

\* d = std::move(s)
MoveAssign(d, s) ==
    /\ ~thrown.threw
    /\ d \in alive /\ s \in alive
    /\ moves < MaxMoves
    /\ Store(MoveAssignment(Mem, d, s))
    /\ abs' = IF d = s THEN abs ELSE [abs EXCEPT ![d] = abs[s], ![s] = {}]
    /\ moves' = moves + 1
    /\ UNCHANGED <<alive, thrown>>

\* s.insert(value) when operator new throws at line 250: the exception leaves
\* Insert's frames before any of them has assigned anything
InsertThrows(s, value) ==
    /\ ~thrown.threw
    /\ s \in alive
    /\ find(Mem, s, value) = end(Mem, s)
    /\ thrown' = Thrown(s)
    /\ UNCHANGED <<heap, alive, tree_root_, set_size_, abs, moves>>

\* d = s when operator new throws in Copy after `budget` allocations
CopyAssignThrows(d, s, budget) ==
    /\ ~thrown.threw
    /\ d \in alive /\ s \in alive /\ d # s
    /\ budget < Cardinality(NodesOf(Mem, s))
    /\ Cardinality(DOMAIN heap) - Cardinality(NodesOf(Mem, d)) + budget <= MaxNodes
    /\ \E r \in {CopyAssignment(Mem, d, s, budget)} : Store(r.m)
    /\ thrown' = Thrown(d)
    /\ UNCHANGED <<alive, abs, moves>>

Mutate ==
    \/ \E s \in Sets : DefaultConstruct(s)
    \/ \E s \in Sets : Destroy(s)
    \/ \E s \in Sets, value \in Values : CallInsert(s, value)
    \/ \E s \in Sets, value \in Values : CallErase(s, value)
    \/ \E d \in Sets, s \in Sets : CopyConstruct(d, s)
    \/ \E d \in Sets, s \in Sets : CopyAssign(d, s)

Move ==
    \/ \E d \in Sets, s \in Sets : MoveConstruct(d, s)
    \/ \E d \in Sets, s \in Sets : MoveAssign(d, s)

Throw ==
    \/ \E s \in Sets, value \in Values : InsertThrows(s, value)
    \/ \E d \in Sets, s \in Sets, budget \in 0..MaxNodes : CopyAssignThrows(d, s, budget)

\* insert, erase, copies, construction and destruction; no allocation fails
NextState == Mutate
Spec == Init /\ [][NextState]_vars

\* the same with the move constructor and move assignment
NextMove == Mutate \/ Move
SpecMove == Init /\ [][NextMove]_vars

\* the same as Spec with allocation failures; a thrown exception ends the run
NextThrow == Mutate \/ Throw
SpecThrow == Init /\ [][NextThrow]_vars

\* ------------------------------------------------------------- claims
\* the level of a child, a null child counting as level 0
Level(m, vertex) == IF vertex = NULL THEN 0 ELSE m.heap[vertex].level

\* the values stored in s's tree
Stored(m, s) == {m.heap[n].value : n \in NodesOf(m, s)}

\* the elements of a sequence
Range(seq) == {seq[i] : i \in 1..Len(seq)}

\* a sequence without the value v
Without(seq, v) == SelectSeq(seq, LAMBDA x : x # v)

\* s.insert(value) can be called within the heap of the model
CanInsert(s, value) ==
    s \in alive /\ (find(Mem, s, value) # end(Mem, s) \/ DOMAIN heap # Addresses)

\* C1: after any sequence of insert and erase calls the AA-tree level
\* invariant holds at every node reachable from a root: a node's level is one
\* more than its left child's, its right child's level is its own or one
\* less, and its right-right grandchild's level is strictly less than its own.
LevelInvariantAt(m, n) ==
    /\ m.heap[n].level = Level(m, m.heap[n].left_son) + 1
    /\ Level(m, m.heap[n].right_son) \in {m.heap[n].level, m.heap[n].level - 1}
    /\ m.heap[n].right_son # NULL
         => Level(m, m.heap[m.heap[n].right_son].right_son) < m.heap[n].level

C1_LevelInvariant ==
    \A s \in alive : \A n \in NodesOf(Mem, s) : LevelInvariantAt(Mem, n)

\* C2: insert(v) returns true exactly when v was not in the set; then size()
\* grows by 1, and otherwise size() and the element sequence are unchanged;
\* either way the iterator returned refers to the element equal to v.
InsertContract(s, v) ==
    LET r == insert(Mem, s, v)
    IN  /\ r.second <=> (v \notin Range(Traverse(Mem, s)))
        /\ v \notin Range(Traverse(Mem, s))
             => size(r.m, s) = size(Mem, s) + 1
        /\ v \in Range(Traverse(Mem, s))
             => /\ size(r.m, s) = size(Mem, s)
                /\ Traverse(r.m, s) = Traverse(Mem, s)
        /\ r.first # end(r.m, s) /\ Deref(r.m, r.first) = v

C2_InsertReturnsWhetherAdded ==
    \A s \in Sets, v \in Values : CanInsert(s, v) => InsertContract(s, v)

\* C3: a forward traversal from begin() by ++ to end() visits exactly the
\* elements of the mathematical set the inserts and erases describe, each
\* once and in strictly increasing order, and size() is the number visited.
TraversalMatches(m, s, elements) ==
    LET t == Traverse(m, s)
    IN  /\ Range(t) = elements
        /\ \A i \in 1..Len(t), j \in 1..Len(t) : i < j => t[i] < t[j]
        /\ size(m, s) = Len(t)

C3_TraversalRefinesSet ==
    \A s \in alive : TraversalMatches(Mem, s, abs[s])

C3_Witness ==
    \E s \in alive :
        /\ Cardinality(abs[s]) = MaxVal
        /\ Traverse(Mem, s) = [i \in 1..MaxVal |-> i]
        /\ \E t \in alive \ {s} : abs[t] # {}

\* C4: erase(v) returns 1 and removes exactly v, size() dropping by 1, when
\* v is present, whichever case applies at the target node; when v is absent
\* it returns 0 and leaves the element sequence and size() unchanged.
EraseContract(s, v) ==
    LET r == erase(Mem, s, v)
    IN  IF v \in Range(Traverse(Mem, s))
        THEN /\ r.count = 1
             /\ Traverse(r.m, s) = Without(Traverse(Mem, s), v)
             /\ size(r.m, s) = size(Mem, s) - 1
        ELSE /\ r.count = 0
             /\ Traverse(r.m, s) = Traverse(Mem, s)
             /\ size(r.m, s) = size(Mem, s)

C4_EraseRemovesExactly ==
    \A s \in alive, v \in Values : EraseContract(s, v)

\* the three cases of Erase at the node holding v
IsLeafCase(m, n) == m.heap[n].left_son = NULL /\ m.heap[n].right_son = NULL
IsSuccessorCase(m, n) == m.heap[n].left_son = NULL /\ m.heap[n].right_son # NULL
IsPredecessorCase(m, n) == m.heap[n].left_son # NULL

C4_Witness ==
    /\ \E s \in alive, n \in DOMAIN heap :
          /\ n \in NodesOf(Mem, s) /\ IsPredecessorCase(Mem, n)
          /\ erase(Mem, s, heap[n].value).count = 1
    /\ \E s \in alive, n \in DOMAIN heap :
          /\ n \in NodesOf(Mem, s) /\ IsSuccessorCase(Mem, n)
          /\ erase(Mem, s, heap[n].value).count = 1
    /\ \E s \in alive, n \in DOMAIN heap :
          /\ n \in NodesOf(Mem, s) /\ IsLeafCase(Mem, n)
          /\ erase(Mem, s, heap[n].value).count = 1
    /\ \E s \in alive, v \in Values :
          v \notin Stored(Mem, s) /\ erase(Mem, s, v).count = 0

\* C5: move construction and move assignment from S leave S empty and valid:
\* S.size() = 0, S.empty(), S.begin() = S.end(), and for S and the
\* destination the element count is the number of nodes reachable from the
\* root.
CountIsNodes(m, s) == size(m, s) = Cardinality(NodesOf(m, s))

MovedFrom(m, d, s) ==
    /\ size(m, s) = 0
    /\ empty(m, s)
    /\ begin(m, s) = end(m, s)
    /\ CountIsNodes(m, s)
    /\ CountIsNodes(m, d)

C5_MoveLeavesSourceEmpty ==
    /\ \A d \in Sets \ alive, s \in alive :
          MovedFrom(MoveConstructor(Mem, d, s), d, s)
    /\ \A d \in alive : \A s \in alive \ {d} :
          MovedFrom(MoveAssignment(Mem, d, s), d, s)

\* C6: for any set S and any value v, S.insert(v) followed by S.erase(v)
\* restores the element sequence and the size of S.
RoundTrip(s, v) ==
    LET e == erase(insert(Mem, s, v).m, s, v)
    IN  /\ Traverse(e.m, s) = Traverse(Mem, s)
        /\ size(e.m, s) = size(Mem, s)

C6_RoundTripAnyValue ==
    \A s \in Sets, v \in Values : CanInsert(s, v) => RoundTrip(s, v)

\* C6 as amended: for any set S and any value v that S does not hold,
\* S.insert(v) followed by S.erase(v) restores the element sequence and the
\* size of S.
C6_RoundTripNewValue ==
    \A s \in Sets, v \in Values :
        CanInsert(s, v) /\ v \notin Range(Traverse(Mem, s)) => RoundTrip(s, v)

\* a set whose tree the round trip rebuilds in another shape
C6_Witness ==
    \E s \in alive, v \in Values :
        /\ CanInsert(s, v) /\ v \notin Range(Traverse(Mem, s))
        /\ Len(Traverse(Mem, s)) >= 2
        /\ LET e == erase(insert(Mem, s, v).m, s, v)
           IN  /\ e.m.tree_root_[s] # tree_root_[s]
               /\ Traverse(e.m, s) = Traverse(Mem, s)

\* C7: lower_bound(v) returns an iterator to the least stored element not
\* less than v, or end() if there is none; find(v) returns an iterator to the
\* element equal to v, or end() if v is absent; when v is present the two
\* agree.
QueryValues == 0..(MaxVal + 1)

LowerBoundContract(m, s, v) ==
    LET it == lower_bound(m, s, v)
        atLeast == {x \in Stored(m, s) : x >= v}
    IN  IF atLeast = {}
        THEN it = end(m, s)
        ELSE /\ it.current_vertex \in NodesOf(m, s)
             /\ Deref(m, it) \in atLeast
             /\ \A x \in atLeast : Deref(m, it) <= x

FindContract(m, s, v) ==
    LET it == find(m, s, v)
    IN  IF v \in Stored(m, s)
        THEN /\ it.current_vertex \in NodesOf(m, s)
             /\ Deref(m, it) = v
             /\ lower_bound(m, s, v) = it
        ELSE it = end(m, s)

C7_LowerBoundAndFind ==
    \A s \in alive, v \in QueryValues :
        LowerBoundContract(Mem, s, v) /\ FindContract(Mem, s, v)

\* a query between two stored values, answered by a node below the root
C7_Witness ==
    \E s \in alive, v \in QueryValues :
        /\ find(Mem, s, v) = end(Mem, s)
        /\ lower_bound(Mem, s, v) # end(Mem, s)
        /\ Deref(Mem, lower_bound(Mem, s, v)) > v
        /\ lower_bound(Mem, s, v).current_vertex # tree_root_[s]
        /\ \E w \in QueryValues : w > v /\ lower_bound(Mem, s, w) = end(Mem, s)
        /\ \E w \in Stored(Mem, s) : lower_bound(Mem, s, w) = find(Mem, s, w)

\* C8: for every iterator it that refers to an element, --(++it) = it, also
\* when ++it is end(); for every such it that is not the minimum,
\* ++(--it) = it; the parent links agree with the child links.
ParentLinksAgree(m, s) ==
    /\ m.tree_root_[s] # NULL => m.heap[m.tree_root_[s]].parent = NULL
    /\ \A n \in NodesOf(m, s) :
          /\ m.heap[n].left_son # NULL => m.heap[m.heap[n].left_son].parent = n
          /\ m.heap[n].right_son # NULL => m.heap[m.heap[n].right_son].parent = n

IterationSymmetric(m, s) ==
    \A n \in NodesOf(m, s) :
        LET it == iterator(s, n)
        IN  /\ PreDecrement(m, PreIncrement(m, it)) = it
            /\ it # begin(m, s) => PreIncrement(m, PreDecrement(m, it)) = it

C8_IterationSymmetry ==
    \A s \in alive : IterationSymmetric(Mem, s) /\ ParentLinksAgree(Mem, s)

\* a tree of three levels of links: the maximum is not the root, and some
\* node reaches its neighbours by climbing
C8_Witness ==
    \E s \in alive, n \in DOMAIN heap :
        /\ n \in NodesOf(Mem, s) /\ n # tree_root_[s]
        /\ Cardinality(NodesOf(Mem, s)) = MaxVal
        /\ PreIncrement(Mem, iterator(s, n)) = end(Mem, s)
        /\ PreDecrement(Mem, end(Mem, s)) = iterator(s, n)
        /\ \E k \in NodesOf(Mem, s) :
              /\ heap[k].left_son = NULL /\ heap[k].right_son = NULL
              /\ heap[k].parent # NULL
              /\ PreIncrement(Mem, iterator(s, k)) = iterator(s, heap[k].parent)

\* C9: after copy construction or copy assignment B = A, B has A's element
\* sequence and size and A keeps its own; an insert or erase on one object
\* leaves the other object's element sequence and size unchanged;
\* self-assignment leaves the object unchanged.
CopyIsEqual(m, d, s) ==
    /\ Traverse(m, d) = Traverse(Mem, s)
    /\ size(m, d) = size(Mem, s)
    /\ Traverse(m, s) = Traverse(Mem, s)
    /\ size(m, s) = size(Mem, s)

Untouched(m, t) ==
    /\ Traverse(m, t) = Traverse(Mem, t)
    /\ size(m, t) = size(Mem, t)

C9_CopyIndependence ==
    /\ \A d \in Sets \ alive, s \in alive :
          RoomToCopy(d, s) =>
              CopyIsEqual(CopyConstructor(Mem, d, s, MaxNodes).m, d, s)
    /\ \A d \in alive : \A s \in alive \ {d} :
          RoomToCopy(d, s) =>
              CopyIsEqual(CopyAssignment(Mem, d, s, MaxNodes).m, d, s)
    /\ \A s \in alive : CopyAssignment(Mem, s, s, MaxNodes).m = Mem
    /\ \A s \in alive : \A t \in alive \ {s}, v \in Values :
          /\ CanInsert(s, v) => Untouched(insert(Mem, s, v).m, t)
          /\ Untouched(erase(Mem, s, v).m, t)

\* two objects with the same two or more elements in disjoint nodes, one
\* about to be assigned a different set, the other about to change
C9_Witness ==
    \E d \in alive : \E s \in alive \ {d} :
        /\ Len(Traverse(Mem, s)) >= 2
        /\ Traverse(Mem, d) = Traverse(Mem, s)
        /\ NodesOf(Mem, d) \cap NodesOf(Mem, s) = {}
        /\ \E v \in Values :
              /\ Traverse(erase(Mem, s, v).m, s) # Traverse(Mem, s)
              /\ Traverse(erase(Mem, s, v).m, d) = Traverse(Mem, d)
              /\ LET a == CopyAssignment(erase(Mem, s, v).m, d, s, MaxNodes).m
                 IN  Traverse(a, d) = Traverse(erase(Mem, s, v).m, s)

\* C10: when a node allocation fails during insert or copy assignment, the
\* target's root, nodes and element count are what they were before the call.
C10_FailureLeavesTargetUnchanged ==
    thrown.threw =>
        /\ tree_root_[thrown.self] = thrown.tree_root_
        /\ set_size_[thrown.self] = thrown.set_size_
        /\ \A n \in DOMAIN thrown.nodes :
              n \in DOMAIN heap /\ heap[n] = thrown.nodes[n]

====
